---- MODULE Spec2Model ----
(***************************************************************************)
(* Offline-aware weather lookup of xmanpe/weather-app-final.               *)
(*                                                                         *)
(* The model covers                                                        *)
(*   - CacheService over localStorage (cacheService.ts),                   *)
(*   - the offline lookup hooks useOfflineWeatherData and                  *)
(*     useOfflineWeatherDataByCoords (offlineWeatherHooks.ts),             *)
(*   - the plain lookup hook and the prefetch of weatherHooks.ts as App    *)
(*     uses them (App.tsx),                                                *)
(*   - what these run on: the query cache of @tanstack/react-query (one    *)
(*     query per queryKey, its retries, its staleTime and gcTime, its own  *)
(*     online flag under the default networkMode), navigator.onLine, the   *)
(*     window's online/offline events, and the clock Date.now().           *)
(*                                                                         *)
(* Time is in milliseconds.  A React render is followed by the flush of    *)
(* its effects; the flush is a step of its own (HookRunEffects), and the   *)
(* value the hook returns in a state is HookReturn, what a render in that  *)
(* state yields.  Refetching on window focus is not modelled.              *)
(***************************************************************************)
EXTENDS Integers, Sequences, FiniteSets, TLC

VARIABLES
    now,        \* Date.now()
    ticks,      \* number of clock steps taken (bounds the clock)
    navOnline,  \* navigator.onLine
    mgrOnline,  \* the query client's online flag (set by the window events only)
    ev,         \* the online/offline event the platform has queued, not yet dispatched
    store,      \* localStorage entries under 'weather-cache-' + key
    full,       \* localStorage is out of quota: setItem throws
    favorites,  \* localStorage entry 'weather-app-favorites'
    q,          \* the query cache: <<kind, location>> -> query state
    hook,       \* one mounted instance of an offline lookup hook
    app,        \* App: selectedCity, useLocation, hasTriedLocation, the geolocation query
    lastOp      \* the latest call of CacheService made from outside the hooks

vars == <<now, ticks, navOnline, mgrOnline, ev, store, full, favorites, q, hook, app, lastOp>>

----------------------------------------------------------------------------
(* Bounds of the model *)

MaxTicks == 1
MaxElapse == 3

(* Program constants *)

CACHE_EXPIRY_MS == 1800000
RetryCount == 3
StaleCurrentMs == 300000
StaleForecastMs == 600000
GcCurrentMs == 600000
GcForecastMs == 1200000
MsPerMinute == 60000
RetryBaseMs == 1000
RetryCapMs == 30000
GeoStaleMs == 600000

(* The clock advances by 35 min 30 s at a time, between requests *)
TickSteps == {2130000}

----------------------------------------------------------------------------
(* Locations, keys and payloads *)

Kinds == {"current", "forecast"}

CityNames == {"Paris", "paris", "Oslo"}
CoordNames == {"coords_1_2"}
Names == CityNames \cup CoordNames

\* String.prototype.toLowerCase on the names of the model
toLowerCase(s) ==
    CASE s = "Paris" -> "paris"
      [] s = "Oslo" -> "oslo"
      [] s = "Rome" -> "rome"
      [] OTHER -> s

StoreKeys == {toLowerCase(n) : n \in Names}

\* what a lookup hook is given: a city name, or coordinates (n is the cityKey
\* `coords_${lat}_${lon}` the coordinate hook builds)
CityLocs == {[t |-> "city", n |-> c] : c \in CityNames}
CoordLocs == {[t |-> "coords", n |-> c] : c \in CoordNames}
Locs == CityLocs \cup CoordLocs
NoLoc == [t |-> "none", n |-> ""]

Paris == [t |-> "city", n |-> "Paris"]
Oslo == [t |-> "city", n |-> "Oslo"]
Here == [t |-> "coords", n |-> "coords_1_2"]
\* the city App falls back to
London == [t |-> "city", n |-> "London"]

NoData == [k |-> "none", for |-> NoLoc, at |-> 0]
\* the payload the remote API returns for `loc` at time `t`
Payload(k, loc, t) == [k |-> k, for |-> loc, at |-> t]

NoSnap == [currentWeather |-> NoData, forecast |-> NoData, timestamp |-> 0, cityName |-> ""]

\* a number that is undefined, and the result of arithmetic on it
Undefined == -1
NaN == -2

\* entries not written by CacheService: the text "{}", whose parse is an object
\* without fields, and a text that JSON.parse throws on
EmptyObject == [currentWeather |-> NoData, forecast |-> NoData, timestamp |-> Undefined,
                cityName |-> ""]
Unparseable == [currentWeather |-> NoData, forecast |-> NoData, timestamp |-> Undefined,
                cityName |-> "{oops"]

----------------------------------------------------------------------------
(* CacheService *)

setCachedWeatherData_NoLower(st, cityName, currentWeather, forecast, t, ok) ==
    IF ok
    THEN [k \in DOMAIN st |->
            IF k = cityName
            THEN [currentWeather |-> currentWeather, forecast |-> forecast,
                  timestamp |-> t, cityName |-> cityName]
            ELSE st[k]]
    ELSE st

setCachedWeatherData_ClearOnFail(st, cityName, currentWeather, forecast, t, ok) ==
    IF ok
    THEN [st EXCEPT ![toLowerCase(cityName)] =
            [currentWeather |-> currentWeather, forecast |-> forecast,
             timestamp |-> t, cityName |-> toLowerCase(cityName)]]
    ELSE [st EXCEPT ![toLowerCase(cityName)] = NoSnap]

\* ok: localStorage.setItem did not throw (a throw is caught and logged)
setCachedWeatherData(st, cityName, currentWeather, forecast, t, ok) ==
    IF ok
    THEN [st EXCEPT ![toLowerCase(cityName)] =
            [currentWeather |-> currentWeather, forecast |-> forecast,
             timestamp |-> t, cityName |-> toLowerCase(cityName)]]
    ELSE st

\* no item: null; JSON.parse throws: caught, null; otherwise whatever the parse
\* yields
getCachedWeatherData(st, cityName) ==
    LET cached == st[toLowerCase(cityName)]
    IN IF cached = NoSnap THEN NoSnap
       ELSE IF cached = Unparseable THEN NoSnap
       ELSE cached

removeCachedData(st, cityName) == [st EXCEPT ![toLowerCase(cityName)] = NoSnap]

clearAllCache(st) == [k \in DOMAIN st |-> NoSnap]

getCacheAge_Round(cachedData, t) ==
    ((t - cachedData.timestamp) + (MsPerMinute \div 2)) \div MsPerMinute

getCacheAge_Ceil(cachedData, t) ==
    ((t - cachedData.timestamp) + MsPerMinute - 1) \div MsPerMinute

getCacheAge(cachedData, t) ==
    IF cachedData.timestamp = Undefined THEN NaN
    ELSE (t - cachedData.timestamp) \div MsPerMinute

isCacheDataFresh_Inclusive(cachedData, t) == (t - cachedData.timestamp) <= CACHE_EXPIRY_MS

isCacheDataFresh(cachedData, t) == (t - cachedData.timestamp) < CACHE_EXPIRY_MS

----------------------------------------------------------------------------
(* StorageService: the favorites list and the cleanup of the cache *)

\* favorites.some(fav => fav.toLowerCase() === city.toLowerCase())
isFavorite(fv, city) == \E i \in 1..Len(fv) : toLowerCase(fv[i]) = toLowerCase(city)

\* cachedCity.startsWith('coords_'), on the keys of the model
startsWithCoords(k) == k = "coords_1_2"

addFavorite_ExactMatch(fv, st, city, ok) ==
    LET exists == \E i \in 1..Len(fv) : fv[i] = city
    IN IF ~exists /\ ok
       THEN [stored |-> Append(fv, city), ret |-> Append(fv, city), cache |-> st]
       ELSE [stored |-> fv, ret |-> fv, cache |-> st]

addFavorite_Unshift(fv, st, city, ok) ==
    IF ~isFavorite(fv, city) /\ ok
    THEN [stored |-> <<city>> \o fv, ret |-> <<city>> \o fv, cache |-> st]
    ELSE [stored |-> fv, ret |-> fv, cache |-> st]

\* stored: the list persisted afterwards; ret: the list returned; cache: the
\* snapshot entries afterwards; ok: localStorage.setItem did not throw (a throw
\* is caught and the persisted list is read again and returned)
addFavorite(fv, st, city, ok) ==
    LET favorites_ == Append(fv, city)
    IN IF isFavorite(fv, city)
       THEN [stored |-> fv, ret |-> fv, cache |-> st]
       ELSE IF ok
            THEN [stored |-> favorites_, ret |-> favorites_, cache |-> st]
            ELSE [stored |-> fv, ret |-> fv, cache |-> st]

removeFavorite_ExactMatch(fv, st, city, ok) ==
    LET filtered == SelectSeq(fv, LAMBDA fav : fav # city)
    IN IF ok
       THEN [stored |-> filtered, ret |-> filtered, cache |-> st]
       ELSE [stored |-> fv, ret |-> fv, cache |-> st]

removeFavorite_WithCache(fv, st, city, ok) ==
    LET filtered == SelectSeq(fv, LAMBDA fav : toLowerCase(fav) # toLowerCase(city))
    IN IF ok
       THEN [stored |-> filtered, ret |-> filtered, cache |-> removeCachedData(st, city)]
       ELSE [stored |-> fv, ret |-> fv, cache |-> st]

removeFavorite(fv, st, city, ok) ==
    LET filtered == SelectSeq(fv, LAMBDA fav : toLowerCase(fav) # toLowerCase(city))
    IN IF ok
       THEN [stored |-> filtered, ret |-> filtered, cache |-> st]
       ELSE [stored |-> fv, ret |-> fv, cache |-> st]

\* the order in which localStorage.key(i) yields the keys of the model
KeyOrder == <<"coords_1_2", "oslo", "paris">>

\* the keys under the cache prefix, without the prefix
getAllCachedCities(st) == SelectSeq(KeyOrder, LAMBDA k : st[k] # NoSnap)

cleanupUnfavoritedCache_NoFold(fv, st) ==
    LET cachedCities == getAllCachedCities(st)
        drop == {cachedCities[j] : j \in 1..Len(cachedCities)}
    IN [k \in DOMAIN st |->
            IF /\ k \in drop
               /\ ~startsWithCoords(k)
               /\ ~\E i \in 1..Len(fv) : fv[i] = k
            THEN NoSnap ELSE st[k]]

\* every cached city that is not coordinate-based and is no favorite is removed
cleanupUnfavoritedCache(fv, st) ==
    LET cachedCities == getAllCachedCities(st)
        seen == {cachedCities[j] : j \in 1..Len(cachedCities)}
    IN [k \in DOMAIN st |->
            IF /\ k \in seen
               /\ ~startsWithCoords(k)
               /\ ~\E i \in 1..Len(fv) : toLowerCase(fv[i]) = k
            THEN removeCachedData(st, k)[k] ELSE st[k]]

----------------------------------------------------------------------------
(* The query cache *)

QKeys == Kinds \X (Locs \cup {London})

\* fs: idle, inflight (an attempt is out) or paused (waiting for the online event);
\* fails: the failed attempts of the running fetch; retry: the retries it is
\* allowed; wait: the backoff delay that preceded the attempt now due (the clock
\* of the model is not advanced by it); inv: the query has been invalidated since
\* its data arrived
NoQuery == [data |-> NoData, err |-> FALSE, fs |-> "idle", fails |-> 0, retry |-> 0,
            wait |-> 0, inv |-> FALSE]

Min(a, b) == IF a <= b THEN a ELSE b

retryDelay_Linear(attemptIndex) == Min(RetryBaseMs * (attemptIndex + 1), RetryCapMs)

\* retryDelay: (attemptIndex) => Math.min(1000 * 2 ** attemptIndex, 30000)
retryDelay(attemptIndex) == Min(RetryBaseMs * 2^attemptIndex, RetryCapMs)

StaleTime(k) == IF k = "current" THEN StaleCurrentMs ELSE StaleForecastMs
GcTime(k) == IF k = "current" THEN GcCurrentMs ELSE GcForecastMs

\* a query that was invalidated, has no data, or whose data is older than
\* staleTime
IsStale(s, k, t) == s.inv \/ s.data = NoData \/ t - s.data.at >= StaleTime(k)

\* the fetch of a query starts: its first attempt is issued, or held back while
\* the query client is offline
Started(s, r, online) ==
    [s EXCEPT !.fs = IF online THEN "inflight" ELSE "paused",
              !.fails = 0, !.retry = r, !.wait = 0,
              !.err = IF s.data = NoData THEN FALSE ELSE s.err]

\* every query of S starts a fetch with `r` retries
StartAll(qq, S, r, online) ==
    [x \in QKeys |-> IF x \in S THEN Started(qq[x], r, online) ELSE qq[x]]

\* an observer that mounts, changes key or becomes enabled fetches what is stale
ObserverSet(loc) ==
    {x \in QKeys : x[2] = loc /\ q[x].fs = "idle" /\ IsStale(q[x], x[1], now)}

\* refetch(): starts a fetch, and restarts a running one when the query has data
RefetchSet(loc) ==
    {x \in QKeys : x[2] = loc /\ (q[x].fs = "idle" \/ q[x].data # NoData)}

----------------------------------------------------------------------------
(* The offline lookup hook *)

NoDeps == <<>>

\* kind: which of the two hooks the component calls
HookOff(kind) ==
    [mounted |-> FALSE, kind |-> kind, city |-> NoLoc, isOffline |-> FALSE,
     cachedData |-> NoSnap, listening |-> FALSE,
     ranLoad |-> NoDeps, ranObs |-> NoDeps, ranWrite |-> NoDeps]

HookData(k) == IF hook.city = NoLoc THEN NoData ELSE q[<<k, hook.city>>].data

HookError == hook.city # NoLoc /\ \E k \in Kinds : q[<<k, hook.city>>].err

HookEnabled_Ungated == hook.city # NoLoc

\* enabled: !!city && !isOffline
HookEnabled == hook.city # NoLoc /\ ~hook.isOffline

LoadDeps == <<hook.city, hook.isOffline>>
ObsDeps == <<hook.city, HookEnabled>>
WriteDeps == <<hook.city, HookData("current"), HookData("forecast"), hook.isOffline>>

\* a render has been committed whose effects have not run yet
EffectsPending ==
    hook.mounted /\ (~hook.listening \/ hook.ranLoad # LoadDeps
                     \/ hook.ranObs # ObsDeps \/ hook.ranWrite # WriteDeps)

\* isLoading of a query: fetching and no data yet
QLoading(s) == s.fs = "inflight" /\ s.data = NoData

HookLoading == hook.city # NoLoc /\ \E k \in Kinds : QLoading(q[<<k, hook.city>>])

\* the result built from a snapshot (cacheAge -1: undefined)
CachedResult(cd, off) ==
    [currentWeather |-> cd.currentWeather,
     forecast |-> cd.forecast,
     isLoading |-> FALSE,
     error |-> IF cd # NoSnap THEN "none" ELSE "No cached data available",
     isOffline |-> off,
     isCachedData |-> cd # NoSnap,
     cacheAge |-> IF cd # NoSnap THEN getCacheAge(cd, now) ELSE -1]

\* the result built from the two queries
QueryResult(c, f, loading, err) ==
    [currentWeather |-> c, forecast |-> f, isLoading |-> loading,
     error |-> IF err THEN "fetch" ELSE "none",
     isOffline |-> FALSE, isCachedData |-> FALSE, cacheAge |-> -1]

HookReturn_Fallback ==
    IF hook.isOffline \/ ~navOnline
    THEN CachedResult(hook.cachedData, TRUE)
    ELSE IF HookError /\ getCachedWeatherData(store, hook.city.n) # NoSnap
         THEN CachedResult(getCachedWeatherData(store, hook.city.n), FALSE)
         ELSE QueryResult(HookData("current"), HookData("forecast"), HookLoading, HookError)

HookReturn_NoDataOnError ==
    IF hook.isOffline \/ ~navOnline
    THEN CachedResult(hook.cachedData, TRUE)
    ELSE IF HookError
         THEN QueryResult(NoData, NoData, HookLoading, TRUE)
         ELSE QueryResult(HookData("current"), HookData("forecast"), HookLoading, HookError)

HookReturn_WhenBoth ==
    IF hook.isOffline \/ ~navOnline
    THEN CachedResult(hook.cachedData, TRUE)
    ELSE IF HookData("current") # NoData /\ HookData("forecast") # NoData
         THEN QueryResult(HookData("current"), HookData("forecast"), HookLoading, HookError)
         ELSE QueryResult(NoData, NoData, HookLoading, HookError)

HookReturn_LoadingOffline ==
    IF hook.isOffline \/ ~navOnline
    THEN [CachedResult(hook.cachedData, TRUE) EXCEPT !.isLoading = (hook.cachedData = NoSnap)]
    ELSE QueryResult(HookData("current"), HookData("forecast"), HookLoading, HookError)

\* what the hook returns when rendered in the current state
HookReturn ==
    IF hook.isOffline \/ ~navOnline
    THEN [currentWeather |-> hook.cachedData.currentWeather,
          forecast |-> hook.cachedData.forecast,
          isLoading |-> FALSE,
          error |-> IF hook.cachedData # NoSnap THEN "none" ELSE "No cached data available",
          isOffline |-> TRUE,
          isCachedData |-> hook.cachedData # NoSnap,
          cacheAge |-> IF hook.cachedData # NoSnap
                       THEN getCacheAge(hook.cachedData, now) ELSE -1]
    ELSE [currentWeather |-> HookData("current"),
          forecast |-> HookData("forecast"),
          isLoading |-> HookLoading,
          error |-> IF HookError THEN "fetch" ELSE "none",
          isOffline |-> FALSE,
          isCachedData |-> FALSE,
          cacheAge |-> -1]

\* what useWeatherData(selectedCity) returns in App
AppReturn ==
    IF app.city = NoLoc
    THEN [currentWeather |-> NoData, forecast |-> NoData, isLoading |-> FALSE, error |-> "none"]
    ELSE [currentWeather |-> q[<<"current", app.city>>].data,
          forecast |-> q[<<"forecast", app.city>>].data,
          isLoading |-> \E k \in Kinds : QLoading(q[<<k, app.city>>]),
          error |-> IF \E k \in Kinds : q[<<k, app.city>>].err THEN "fetch" ELSE "none"]

----------------------------------------------------------------------------
(* Initial state: a fresh page load, an empty cache, one favorite *)

\* seq: alternates with every call; ret: the snapshot a read returned; list: the
\* list a call of StorageService returned; n: the length of the favorites list
\* before the call
\* App before it is rendered.  geo: the state of the geolocation query (idle,
\* pending, ok, error); position: the query holds a position, fetched at posAt;
\* tried: a geolocation attempt of the session has ended; firstFailed: the first
\* one failed; fallbacks:
\* the calls of handleSearch("London") made by the fallback effect
\* the SearchBar App renders, before anything is typed.  searchResults: the
\* query the list shown is the response to ("" for the empty list); timer: the
\* query of the pending debounce timeout ("" for none); flight: the queries
\* whose search has been sent and not answered
NoBar == [query |-> "", searchResults |-> "", isSearching |-> FALSE,
          showResults |-> FALSE, timer |-> "", flight |-> {}]

NoApp == [city |-> NoLoc, useLocation |-> FALSE, hasTriedLocation |-> FALSE,
          geo |-> "idle", position |-> FALSE, posAt |-> 0,
          tried |-> FALSE, firstFailed |-> FALSE, fallbacks |-> 0, bar |-> NoBar]

NoOp == [op |-> "none", name |-> "", c |-> NoData, f |-> NoData, at |-> 0,
         ok |-> TRUE, ret |-> NoSnap, list |-> <<>>, n |-> 0, seq |-> 0]

InitWith(kinds) ==
    /\ now = 0
    /\ ticks = 0
    /\ navOnline \in BOOLEAN
    /\ mgrOnline = TRUE
    /\ ev = "none"
    /\ store = [k \in StoreKeys |-> NoSnap]
    /\ full = FALSE
    /\ favorites = <<"Paris">>
    /\ q = [x \in QKeys |-> NoQuery]
    /\ hook \in {HookOff(k) : k \in kinds}
    /\ app = NoApp
    /\ lastOp = NoOp

\* the component calls useOfflineWeatherData
Init == InitWith({"city"})
\* the component calls useOfflineWeatherDataByCoords
InitCoords == InitWith({"coords"})
\* either
InitHooks == InitWith({"city", "coords"})

----------------------------------------------------------------------------
(* The offline lookup hook: mount, key change, unmount, effects, refetch *)

\* first render: useState(!navigator.onLine), useState(null)
HookMount(l) ==
    /\ ~hook.mounted /\ l.t = hook.kind
    /\ hook' = [HookOff(hook.kind) EXCEPT !.mounted = TRUE, !.city = l,
                                          !.isOffline = ~navOnline]
    /\ UNCHANGED <<now, ticks, navOnline, mgrOnline, ev, store, favorites, q, app, lastOp, full>>

\* the component is rendered with another city (or null)
HookSetCity(l) ==
    /\ hook.mounted /\ ~EffectsPending
    /\ l # hook.city
    /\ l = NoLoc \/ l.t = hook.kind
    /\ hook' = [hook EXCEPT !.city = l]
    /\ UNCHANGED <<now, ticks, navOnline, mgrOnline, ev, store, favorites, q, app, lastOp, full>>

HookUnmount ==
    /\ hook.mounted /\ ~EffectsPending
    /\ hook' = HookOff(hook.kind)
    /\ UNCHANGED <<now, ticks, navOnline, mgrOnline, ev, store, favorites, q, app, lastOp, full>>

\* the component that calls the other of the two hooks is rendered instead
HookOther ==
    /\ ~hook.mounted
    /\ hook' = HookOff(IF hook.kind = "city" THEN "coords" ELSE "city")
    /\ UNCHANGED <<now, ticks, navOnline, mgrOnline, ev, store, favorites, q, app, lastOp, full>>

\* the write-through effect's condition
WriteThroughCond_Either ==
    /\ hook.city # NoLoc
    /\ HookData("current") # NoData \/ HookData("forecast") # NoData
    /\ ~hook.isOffline

WriteThroughCond_NoTracker ==
    /\ hook.city # NoLoc
    /\ HookData("current") # NoData
    /\ HookData("forecast") # NoData

WriteThroughCond ==
    /\ hook.city # NoLoc
    /\ HookData("current") # NoData
    /\ HookData("forecast") # NoData
    /\ ~hook.isOffline

\* the flush of the effects of the latest render, in source order
HookRunEffects ==
    /\ EffectsPending
    /\  LET c == hook.city
            ok == ~full
            doLoad == hook.ranLoad # LoadDeps /\ c # NoLoc /\ (hook.isOffline \/ ~navOnline)
            doObs == hook.ranObs # ObsDeps /\ HookEnabled
            doWrite == hook.ranWrite # WriteDeps /\ WriteThroughCond
            st1 == IF doWrite
                   THEN setCachedWeatherData(store, c.n, HookData("current"),
                                             HookData("forecast"), now, ok)
                   ELSE store
            \* useOfflineWeatherDataByCoords loads after its write-through effect
            cd == IF doLoad
                  THEN getCachedWeatherData(IF hook.kind = "coords" THEN st1 ELSE store, c.n)
                  ELSE hook.cachedData
        IN /\ q' = IF doObs THEN StartAll(q, ObserverSet(c), RetryCount, mgrOnline) ELSE q
           /\ store' = st1
           /\ hook' = [hook EXCEPT !.listening = TRUE, !.cachedData = cd,
                                   !.ranLoad = LoadDeps, !.ranObs = ObsDeps,
                                   !.ranWrite = WriteDeps]
    /\ UNCHANGED <<now, ticks, navOnline, mgrOnline, ev, favorites, app, lastOp, full>>

\* refetch(): offline, read the cache again; online, refetch both queries
HookRefetch ==
    /\ hook.mounted /\ ~EffectsPending /\ hook.city # NoLoc
    /\ IF hook.isOffline
       THEN /\ hook' = [hook EXCEPT !.cachedData = getCachedWeatherData(store, hook.city.n)]
            /\ q' = q
       ELSE /\ q' = StartAll(q, RefetchSet(hook.city), RetryCount, mgrOnline)
            /\ UNCHANGED hook
    /\ UNCHANGED <<now, ticks, navOnline, mgrOnline, ev, store, favorites, app, lastOp, full>>

----------------------------------------------------------------------------
(* The queries: the attempts of a fetch *)

AttemptSucceed_ToLatestKey(x) ==
    /\ q[x].fs = "inflight" /\ navOnline /\ ~EffectsPending
    /\ LET y == IF hook.mounted /\ hook.city # NoLoc THEN <<x[1], hook.city>> ELSE x
           done == [q EXCEPT ![x] = [q[x] EXCEPT !.fs = "idle", !.fails = 0, !.retry = 0,
                                                 !.wait = 0]]
       IN q' = [done EXCEPT ![y] = [data |-> Payload(x[1], x[2], now), err |-> FALSE,
                                    fs |-> "idle", fails |-> 0, retry |-> 0, wait |-> 0, inv |-> FALSE]]
    /\ UNCHANGED <<now, ticks, navOnline, mgrOnline, ev, store, favorites, hook, app, lastOp, full>>

\* the remote API answers an attempt
AttemptSucceed(x) ==
    /\ q[x].fs = "inflight" /\ navOnline /\ ~EffectsPending
    /\ q' = [q EXCEPT ![x] = [data |-> Payload(x[1], x[2], now), err |-> FALSE,
                              fs |-> "idle", fails |-> 0, retry |-> 0, wait |-> 0, inv |-> FALSE]]
    /\ UNCHANGED <<now, ticks, navOnline, mgrOnline, ev, store, favorites, hook, app, lastOp, full>>

\* an attempt fails: after the backoff delay the next attempt is issued (or held
\* back while the query client is offline), or the fetch settles as failed when
\* the retries are used up
AttemptFail(x) ==
    /\ q[x].fs = "inflight" /\ ~EffectsPending
    /\ IF q[x].fails < q[x].retry
       THEN q' = [q EXCEPT ![x] = [q[x] EXCEPT !.fails = q[x].fails + 1,
                                               !.wait = retryDelay(q[x].fails),
                                               !.fs = IF mgrOnline THEN "inflight" ELSE "paused"]]
       ELSE q' = [q EXCEPT ![x] = [q[x] EXCEPT !.fs = "idle", !.fails = 0, !.wait = 0,
                                               !.retry = 0, !.err = TRUE]]
    /\ UNCHANGED <<now, ticks, navOnline, mgrOnline, ev, store, favorites, hook, app, lastOp, full>>

----------------------------------------------------------------------------
(* App: the plain lookup hook and the prefetch of favorites *)

\* handleSearch(city): useWeatherData(selectedCity), enabled: !!city
AppSearch(l) ==
    /\ l # app.city
    /\ app' = [app EXCEPT !.city = l, !.useLocation = FALSE]
    /\ q' = StartAll(q, ObserverSet(l), RetryCount, mgrOnline)
    /\ UNCHANGED <<now, ticks, navOnline, mgrOnline, ev, store, favorites, hook, lastOp, full>>

\* prefetchWeather.mutate(city) for a favorite: the mutation runs while the query
\* client is online, and prefetchQuery does not retry
Prefetch(l) ==
    /\ \E i \in 1..Len(favorites) : favorites[i] = l.n
    /\ mgrOnline
    /\ ObserverSet(l) # {}
    /\ q' = StartAll(q, ObserverSet(l), 0, TRUE)
    /\ UNCHANGED <<now, ticks, navOnline, mgrOnline, ev, store, favorites, hook, app, lastOp, full>>

----------------------------------------------------------------------------
(* App: geolocation and the fallback to London *)

\* the effect on [locationError, hasTriedLocation], run on the state `a` of App:
\* a first failure is answered by handleSearch("London")
FallbackEffect(a) ==
    IF a.geo = "error" /\ ~a.hasTriedLocation
    THEN [a EXCEPT !.hasTriedLocation = TRUE, !.city = London, !.useLocation = FALSE,
                   !.fallbacks = a.fallbacks + 1]
    ELSE a

\* handleUseCurrentLocation
UseCurrentLocation(a) ==
    [a EXCEPT !.useLocation = TRUE, !.city = NoLoc, !.hasTriedLocation = TRUE]

\* the lookups of App in state `a` fetch what is stale of what they read and did
\* not read before
AppFetch(a) ==
    LET reads(b) == {x \in QKeys : \/ b.city = x[2]
                                   \/ b.useLocation /\ b.position /\ x[2] = Here}
        S == {x \in reads(a) \ reads(app) : q[x].fs = "idle" /\ IsStale(q[x], x[1], now)}
    IN StartAll(q, S, RetryCount, mgrOnline)

\* the first render of App and its effects: useCurrentPosition starts the
\* geolocation query, the mount effect reads the favorites and calls
\* handleUseCurrentLocation, the favorites are prefetched (while the query
\* client is online, without retries), the fallback effect finds no
\* locationError
AppMount ==
    /\ app.geo = "idle"
    /\ app' = FallbackEffect(UseCurrentLocation([app EXCEPT !.geo = "pending"]))
    /\ q' = IF mgrOnline
            THEN StartAll(q, {x \in QKeys : /\ x[2].t = "city"
                                            /\ \E i \in 1..Len(favorites) : favorites[i] = x[2].n
                                            /\ q[x].fs = "idle" /\ IsStale(q[x], x[1], now)},
                          0, TRUE)
            ELSE q
    /\ UNCHANGED <<now, ticks, navOnline, mgrOnline, ev, store, favorites, hook, lastOp, full>>

\* a search in the search bar of App
AppUserSearch(l) == app.geo # "idle" /\ AppSearch(l)

\* the button "use current location"
AppUseCurrentLocation ==
    /\ app.geo # "idle"
    /\ ~app.useLocation \/ app.city # NoLoc
    /\ LET a == FallbackEffect(UseCurrentLocation(app))
       IN /\ app' = a
          /\ q' = AppFetch(a)
    /\ UNCHANGED <<now, ticks, navOnline, mgrOnline, ev, store, favorites, hook, lastOp, full>>

\* navigator.geolocation reports a position
GeoSucceed ==
    /\ app.geo = "pending"
    /\ LET a == FallbackEffect([app EXCEPT !.geo = "ok", !.position = TRUE, !.posAt = now,
                                           !.tried = TRUE])
       IN /\ app' = a
          /\ q' = AppFetch(a)
    /\ UNCHANGED <<now, ticks, navOnline, mgrOnline, ev, store, favorites, hook, lastOp, full>>

\* navigator.geolocation reports an error (the query does not retry); the
\* render with locationError runs the fallback effect
GeoFail ==
    /\ app.geo = "pending"
    /\ LET a == FallbackEffect([app EXCEPT !.geo = "error", !.tried = TRUE,
                                           !.firstFailed = ~app.tried \/ app.firstFailed])
       IN /\ app' = a
          /\ q' = AppFetch(a)
    /\ UNCHANGED <<now, ticks, navOnline, mgrOnline, ev, store, favorites, hook, lastOp, full>>

----------------------------------------------------------------------------
(* SearchBar: the debounced city search *)

\* what the user has in the input
BarTexts == {"", " ", "Oslo", "Paris"}

\* String.prototype.length and String.prototype.trim on the texts of the model
length(s) ==
    CASE s = "" -> 0
      [] s = " " -> 1
      [] s = "Oslo" -> 4
      [] s = "Paris" -> 5

trim(s) == IF s = " " THEN "" ELSE s

\* the effect on [query] after a render with a new query: the cleanup of the
\* previous run clears the timeout, then a query of two characters or more arms
\* a new one and a shorter query empties and closes the list
SearchEffect(b) ==
    IF length(b.query) >= 2
    THEN [b EXCEPT !.timer = b.query]
    ELSE [b EXCEPT !.timer = "", !.searchResults = "", !.showResults = FALSE]

\* setQuery(v) and the effect of the render that follows
setQuery(b, v) == IF v = b.query THEN b ELSE SearchEffect([b EXCEPT !.query = v])

\* onSearch is App's handleSearch
onSearch(l) ==
    /\ q' = IF l # app.city THEN StartAll(q, ObserverSet(l), RetryCount, mgrOnline) ELSE q
    /\ UNCHANGED <<now, ticks, navOnline, mgrOnline, ev, store, favorites, hook, lastOp, full>>

\* onChange of the input, which is disabled while App's lookup is loading
BarType(v) ==
    /\ ~AppReturn.isLoading
    /\ v # app.bar.query
    /\ app' = [app EXCEPT !.bar = setQuery(app.bar, v)]
    /\ UNCHANGED <<now, ticks, navOnline, mgrOnline, ev, store, favorites, q, hook, lastOp, full>>

\* handleSubmit, by the button (disabled while loading or when the trimmed query
\* is empty) or the Enter key
BarSubmit ==
    /\ ~AppReturn.isLoading
    /\ app.bar.query # ""
    /\ IF trim(app.bar.query) # ""
       THEN LET l == [t |-> "city", n |-> trim(app.bar.query)]
            IN /\ app' = [app EXCEPT !.city = l, !.useLocation = FALSE,
                                     !.bar = setQuery([app.bar EXCEPT !.showResults = FALSE], "")]
               /\ onSearch(l)
       ELSE UNCHANGED vars

\* handleCitySelect: a click on the entry of the list that is shown
BarSelect ==
    /\ app.bar.showResults /\ app.bar.searchResults # "" /\ ~app.bar.isSearching
    /\ LET l == [t |-> "city", n |-> app.bar.searchResults]
       IN /\ app' = [app EXCEPT !.city = l, !.useLocation = FALSE,
                                !.bar = setQuery([app.bar EXCEPT !.showResults = FALSE], "")]
          /\ onSearch(l)

\* the timeout fires after 500 ms: setIsSearching(true) and the search is sent
BarTimer ==
    /\ app.bar.timer # ""
    /\ app' = [app EXCEPT !.bar = [app.bar EXCEPT !.timer = "", !.isSearching = TRUE,
                                                  !.flight = @ \cup {app.bar.timer}]]
    /\ UNCHANGED <<now, ticks, navOnline, mgrOnline, ev, store, favorites, q, hook, lastOp, full>>

\* searchCities and the weather of the cities found have been answered: the
\* list (empty when no city was found) is set and opened
SearchSucceed(s, found) ==
    /\ s \in app.bar.flight
    /\ app' = [app EXCEPT !.bar = [app.bar EXCEPT !.flight = @ \ {s},
                                                  !.searchResults = IF found THEN s ELSE "",
                                                  !.showResults = TRUE,
                                                  !.isSearching = FALSE]]
    /\ UNCHANGED <<now, ticks, navOnline, mgrOnline, ev, store, favorites, q, hook, lastOp, full>>

\* searchCities throws: the list is emptied
SearchFail(s) ==
    /\ s \in app.bar.flight
    /\ app' = [app EXCEPT !.bar = [app.bar EXCEPT !.flight = @ \ {s},
                                                  !.searchResults = "",
                                                  !.isSearching = FALSE]]
    /\ UNCHANGED <<now, ticks, navOnline, mgrOnline, ev, store, favorites, q, hook, lastOp, full>>

\* mousedown outside the container
BarClickOutside ==
    /\ app.bar.showResults
    /\ app' = [app EXCEPT !.bar = [app.bar EXCEPT !.showResults = FALSE]]
    /\ UNCHANGED <<now, ticks, navOnline, mgrOnline, ev, store, favorites, q, hook, lastOp, full>>

\* onFocus of the input
BarFocus ==
    /\ ~AppReturn.isLoading
    /\ app.bar.searchResults # "" /\ ~app.bar.showResults
    /\ app' = [app EXCEPT !.bar = [app.bar EXCEPT !.showResults = TRUE]]
    /\ UNCHANGED <<now, ticks, navOnline, mgrOnline, ev, store, favorites, q, hook, lastOp, full>>

----------------------------------------------------------------------------
(* The platform: connectivity and the clock *)

\* navigator.onLine changes and the platform queues the event; it dispatches the
\* event before the status changes again
PlatformToggle ==
    /\ ev = "none"
    /\ navOnline' = ~navOnline
    /\ ev' = IF navOnline THEN "offline" ELSE "online"
    /\ UNCHANGED <<now, ticks, mgrOnline, store, favorites, q, hook, app, lastOp, full>>

\* App's lookups read the query: useWeatherData(selectedCity), or
\* useWeatherDataByCoords(useLocation && position ? coords : null)
AppObserves(x) ==
    \/ app.city = x[2]
    \/ app.useLocation /\ app.position /\ x[2] = Here

\* the query has an observer (as of the observer's latest effects)
Observed(x) ==
    \/ AppObserves(x)
    \/ hook.mounted /\ hook.listening /\ hook.ranObs[1] = x[2]

\* the query has an enabled observer
EnabledObserved(x) ==
    \/ AppObserves(x)
    \/ hook.mounted /\ hook.listening /\ hook.ranObs = <<x[2], TRUE>>

\* the geolocation query is stale: no position, or one older than its staleTime
GeoStale == ~app.position \/ now - app.posAt >= GeoStaleMs

DeliverEvent_NoResume ==
    /\ ev # "none"
    /\ ~hook.mounted \/ ~hook.listening \/ ~EffectsPending
    /\ ev' = "none"
    /\ mgrOnline' = (ev = "online")
    /\ hook' = IF hook.mounted /\ hook.listening
               THEN [hook EXCEPT !.isOffline = (ev = "offline")]
               ELSE hook
    /\ UNCHANGED <<now, ticks, navOnline, store, favorites, q, app, lastOp, full>>

\* the window event is dispatched: to the query client, which on coming back
\* online continues its paused fetches and refetches what is stale for its
\* enabled observers (the geolocation query of a rendered App among them), then
\* to handleOnline / handleOffline of a listening hook
DeliverEvent ==
    /\ ev # "none"
    /\ ~hook.mounted \/ ~hook.listening \/ ~EffectsPending
    /\ ev' = "none"
    /\ mgrOnline' = (ev = "online")
    /\ q' = IF ev = "online" /\ ~mgrOnline
            THEN [x \in QKeys |->
                    IF q[x].fs = "paused"
                    THEN [q[x] EXCEPT !.fs = "inflight"]
                    ELSE IF q[x].fs = "idle" /\ EnabledObserved(x) /\ IsStale(q[x], x[1], now)
                         THEN Started(q[x], RetryCount, TRUE)
                         ELSE q[x]]
            ELSE q
    /\ hook' = IF hook.mounted /\ hook.listening
               THEN [hook EXCEPT !.isOffline = (ev = "offline")]
               ELSE hook
    /\ app' = IF ev = "online" /\ ~mgrOnline /\ app.geo \in {"ok", "error"} /\ GeoStale
              THEN [app EXCEPT !.geo = "pending"]
              ELSE app
    /\ UNCHANGED <<now, ticks, navOnline, store, favorites, lastOp, full>>

\* localStorage runs out of quota, or room is made
StorageToggle ==
    /\ full' = ~full
    /\ UNCHANGED <<now, ticks, navOnline, mgrOnline, ev, store, favorites, q, hook, app, lastOp>>

\* time passes while no attempt is out; an idle query nobody observes is
\* collected after gcTime
Tick(d) ==
    /\ ticks < MaxTicks /\ ~EffectsPending /\ ev = "none"
    /\ \A x \in QKeys : q[x].fs # "inflight"
    /\ now' = now + d
    /\ ticks' = ticks + 1
    /\ q' = [x \in QKeys |->
                IF ~Observed(x) /\ q[x].fs = "idle" /\ d >= GcTime(x[1])
                THEN NoQuery ELSE q[x]]
    /\ UNCHANGED <<navOnline, mgrOnline, ev, store, favorites, hook, app, lastOp, full>>

----------------------------------------------------------------------------
(* CacheService called directly *)

StoreNames == CityNames
StoreLocs == {[t |-> "city", n |-> "Paris"], [t |-> "city", n |-> "Oslo"]}

StoreSet(name, lc, lf) ==
    LET c == Payload("current", lc, now)
        f == Payload("forecast", lf, now)
        ok == ~full
    IN /\ store' = setCachedWeatherData(store, name, c, f, now, ok)
       /\ lastOp' = [op |-> "set", name |-> name, c |-> c, f |-> f, at |-> now,
                     ok |-> ok, ret |-> NoSnap, list |-> <<>>, n |-> 0,
                     seq |-> 1 - lastOp.seq]
       /\ UNCHANGED <<now, ticks, navOnline, mgrOnline, ev, favorites, q, hook, app, full>>

StoreGet(name) ==
    /\ lastOp' = [NoOp EXCEPT !.op = "get", !.name = name, !.seq = 1 - lastOp.seq,
                              !.ret = getCachedWeatherData(store, name)]
    /\ UNCHANGED <<now, ticks, navOnline, mgrOnline, ev, store, favorites, q, hook, app, full>>

StoreRemove(name) ==
    /\ store' = removeCachedData(store, name)
    /\ lastOp' = [NoOp EXCEPT !.op = "remove", !.name = name, !.seq = 1 - lastOp.seq]
    /\ UNCHANGED <<now, ticks, navOnline, mgrOnline, ev, favorites, q, hook, app, full>>

StoreClearAll ==
    /\ store' = clearAllCache(store)
    /\ lastOp' = [NoOp EXCEPT !.op = "clear", !.seq = 1 - lastOp.seq]
    /\ UNCHANGED <<now, ticks, navOnline, mgrOnline, ev, favorites, q, hook, app, full>>

\* a client reads a snapshot and asks for its age and its freshness
\* (n: getCacheAge, ok: isCacheDataFresh)
StoreAge(name) ==
    LET cd == getCachedWeatherData(store, name)
    IN /\ cd # NoSnap
       /\ lastOp' = [NoOp EXCEPT !.op = "age", !.name = name, !.ret = cd,
                                 !.n = getCacheAge(cd, now),
                                 !.ok = isCacheDataFresh(cd, now),
                                 !.at = now, !.seq = 1 - lastOp.seq]
       /\ UNCHANGED <<now, ticks, navOnline, mgrOnline, ev, store, favorites, q, hook, app, full>>

\* 1 s, 59 s, 29 min
ElapseSteps == {1000, 59000, 1740000}

\* time passes while the query cache is empty and no hook is mounted
Elapse(d) ==
    /\ ticks < MaxElapse
    /\ ~hook.mounted /\ \A x \in QKeys : q[x] = NoQuery
    /\ now' = now + d
    /\ ticks' = ticks + 1
    /\ UNCHANGED <<navOnline, mgrOnline, ev, store, favorites, q, hook, app, lastOp, full>>

\* something other than CacheService (another script of the origin, the user)
\* leaves an entry under a cache key
StoreCorrupt(name, v) ==
    /\ store[toLowerCase(name)] # v
    /\ store' = [store EXCEPT ![toLowerCase(name)] = v]
    /\ UNCHANGED <<now, ticks, navOnline, mgrOnline, ev, favorites, q, hook, app, lastOp, full>>

----------------------------------------------------------------------------
(* Invalidation of the query cache *)

\* the query is in the query cache (a query that was never fetched and has no
\* error is not told apart from one that is not there)
InCache(s) == s # NoQuery

\* the strings of a queryKey: ['weather', kind, city] or
\* ['weather', kind, 'coords', lat, lon]
KeyStrings(x) == {"weather", x[1]} \cup (IF x[2].t = "city" THEN {x[2].n} ELSE {"coords"})

\* String.prototype.includes on the strings and patterns of the model
includes(str, pattern) ==
    CASE pattern = "aris" -> str \in {"Paris", "paris"}
      [] OTHER -> str = pattern

Patterns == {"aris", "current"}

invalidateQueries_ActiveOnly(qq, M, active, online) ==
    [x \in QKeys |->
        IF x \in M /\ InCache(qq[x]) /\ x \in active
        THEN IF qq[x].fs = "idle" \/ qq[x].data # NoData
             THEN Started(qq[x], RetryCount, online)
             ELSE qq[x]
        ELSE qq[x]]

\* queryClient.invalidateQueries(filters): every matching query is marked
\* invalidated, and those with an enabled observer are refetched; a running fetch
\* is restarted when the query has data (cancelRefetch), kept otherwise
invalidateQueries(qq, M, active, online) ==
    [x \in QKeys |->
        IF x \in M /\ InCache(qq[x])
        THEN LET s == [qq[x] EXCEPT !.inv = TRUE]
             IN IF x \in active /\ (s.fs = "idle" \/ s.data # NoData)
                THEN Started(s, RetryCount, online)
                ELSE s
        ELSE qq[x]]

\* the queries that have an enabled observer
ActiveQueries == {x \in QKeys : EnabledObserved(x)}

\* useRefreshWeather: invalidateQueries({ queryKey: weatherKeys.all })
RefreshWeather ==
    /\ q' = invalidateQueries(q, QKeys, ActiveQueries, mgrOnline)
    /\ lastOp' = [NoOp EXCEPT !.op = "refresh", !.seq = 1 - lastOp.seq]
    /\ UNCHANGED <<now, ticks, navOnline, mgrOnline, ev, store, favorites, hook, app, full>>

\* invalidateByPattern(pattern): the queries one of whose key strings includes
\* the pattern
InvalidateByPattern(pattern) ==
    /\ q' = invalidateQueries(q, {x \in QKeys : \E str \in KeyStrings(x) : includes(str, pattern)},
                              ActiveQueries, mgrOnline)
    /\ lastOp' = [NoOp EXCEPT !.op = "pattern", !.name = pattern,
                              !.seq = 1 - lastOp.seq]
    /\ UNCHANGED <<now, ticks, navOnline, mgrOnline, ev, store, favorites, hook, app, full>>

\* the staleTime local to invalidateStaleData
SweepStaleMs == 300000

\* invalidateStaleData: every weather query whose dataUpdatedAt lies more than
\* the local staleTime back is invalidated by its own key; without data
\* dataUpdatedAt is 0, which lies further back than that (the clock of the model
\* starts at 0 where Date.now() is far from it)
InvalidateStaleData ==
    /\ q' = invalidateQueries(q, {x \in QKeys : \/ q[x].data = NoData
                                                \/ now - q[x].data.at > SweepStaleMs},
                              ActiveQueries, mgrOnline)
    /\ lastOp' = [NoOp EXCEPT !.op = "sweep", !.seq = 1 - lastOp.seq]
    /\ UNCHANGED <<now, ticks, navOnline, mgrOnline, ev, store, favorites, hook, app, full>>

\* clearWeatherCache: removeQueries({ queryKey: weatherKeys.all }).  The queries
\* are dropped with their running fetches; an observer builds its query anew at
\* its next render and fetches it when enabled
ClearWeatherCache ==
    /\ q' = [x \in QKeys |->
                IF AppObserves(x) THEN Started(NoQuery, RetryCount, mgrOnline) ELSE NoQuery]
    /\ hook' = IF hook.mounted /\ hook.listening
               THEN [hook EXCEPT !.ranObs = <<NoLoc, FALSE>>]
               ELSE hook
    /\ lastOp' = [NoOp EXCEPT !.op = "clear-queries", !.seq = 1 - lastOp.seq]
    /\ UNCHANGED <<now, ticks, navOnline, mgrOnline, ev, store, favorites, app, full>>

\* 5 min, 6 min, 11 min
SweepSteps == {300000, 360000, 660000}

\* 6 min
RefreshSteps == {360000}

----------------------------------------------------------------------------
(* StorageService called from the UI *)

FavNames == CityNames \cup {"Rome"}

FavAdd(city) ==
    LET r == addFavorite(favorites, store, city, ~full)
    IN /\ favorites' = r.stored
       /\ store' = r.cache
       /\ lastOp' = [NoOp EXCEPT !.op = "add", !.name = city, !.ok = ~full,
                                 !.list = r.ret, !.n = Len(favorites),
                                 !.seq = 1 - lastOp.seq]
       /\ UNCHANGED <<now, ticks, navOnline, mgrOnline, ev, q, hook, app, full>>

\* handleRemoveFavorite
FavRemove(city) ==
    LET r == removeFavorite(favorites, store, city, ~full)
    IN /\ favorites' = r.stored
       /\ store' = r.cache
       /\ lastOp' = [NoOp EXCEPT !.op = "remove-favorite", !.name = city, !.ok = ~full,
                                 !.list = r.ret, !.n = Len(favorites),
                                 !.seq = 1 - lastOp.seq]
       /\ UNCHANGED <<now, ticks, navOnline, mgrOnline, ev, q, hook, app, full>>

\* handleToggleFavorite: a favorite is removed; another city is added and its
\* weather prefetched
FavToggle(l) ==
    LET fav == isFavorite(favorites, l.n)
        r == IF fav THEN removeFavorite(favorites, store, l.n, ~full)
                    ELSE addFavorite(favorites, store, l.n, ~full)
    IN /\ favorites' = r.stored
       /\ store' = r.cache
       /\ q' = IF ~fav /\ mgrOnline THEN StartAll(q, ObserverSet(l), 0, TRUE) ELSE q
       /\ lastOp' = [NoOp EXCEPT !.op = "toggle", !.name = l.n, !.ok = ~full,
                                 !.list = r.ret, !.n = Len(favorites),
                                 !.seq = 1 - lastOp.seq]
       /\ UNCHANGED <<now, ticks, navOnline, mgrOnline, ev, hook, app, full>>

FavCleanup ==
    /\ store' = cleanupUnfavoritedCache(favorites, store)
    /\ lastOp' = [NoOp EXCEPT !.op = "cleanup", !.list = getAllCachedCities(store),
                              !.seq = 1 - lastOp.seq]
    /\ UNCHANGED <<now, ticks, navOnline, mgrOnline, ev, favorites, q, hook, app, full>>

\* a snapshot is written for a city or for the coordinates
FavLocs == {Paris, Oslo, Here}

----------------------------------------------------------------------------
(* Specifications *)

\* the location each hook is used with
HookLocs == {[t |-> "city", n |-> "Paris"], [t |-> "coords", n |-> "coords_1_2"]}

\* one offline lookup hook, the queries, the platform and the clock; localStorage
\* has room
Next ==
    \/ \E l \in HookLocs : HookMount(l)
    \/ \E l \in HookLocs \cup {NoLoc} : HookSetCity(l)
    \/ HookUnmount
    \/ HookRunEffects
    \/ HookRefetch
    \/ \E x \in QKeys : AttemptSucceed(x)
    \/ \E x \in QKeys : AttemptFail(x)
    \/ PlatformToggle
    \/ DeliverEvent
    \/ \E d \in TickSteps : Tick(d)

Spec == Init /\ [][Next]_vars
SpecCoords == InitCoords /\ [][Next]_vars

\* either hook, the queries, the platform and a localStorage that runs out of quota
NextHooks ==
    \/ \E l \in HookLocs : HookMount(l)
    \/ \E l \in HookLocs \cup {NoLoc} : HookSetCity(l)
    \/ HookUnmount
    \/ HookRunEffects
    \/ HookRefetch
    \/ \E x \in QKeys : AttemptSucceed(x)
    \/ \E x \in QKeys : AttemptFail(x)
    \/ PlatformToggle
    \/ DeliverEvent
    \/ StorageToggle

SpecHooks == InitHooks /\ [][NextHooks]_vars

\* the cities of a key change
KeyLocs == {[t |-> "city", n |-> "Paris"], [t |-> "city", n |-> "Oslo"]}

\* key changes in the hook and in App, and the queries
NextKeys ==
    \/ \E l \in KeyLocs : HookMount(l)
    \/ \E l \in KeyLocs : HookSetCity(l)
    \/ HookRunEffects
    \/ \E l \in KeyLocs : AppSearch(l)
    \/ \E x \in QKeys : AttemptSucceed(x)
    \/ \E x \in QKeys : AttemptFail(x)

SpecKeys == Init /\ [][NextKeys]_vars

\* the city searched in App and kept as a favorite
AppLocs == {[t |-> "city", n |-> "Paris"]}

\* the hook next to App's lookup and prefetch on the same query cache
NextApp ==
    \/ \E l \in AppLocs : HookMount(l)
    \/ HookUnmount
    \/ HookRunEffects
    \/ HookRefetch
    \/ \E l \in AppLocs : AppSearch(l)
    \/ \E l \in AppLocs : Prefetch(l)
    \/ \E x \in QKeys : AttemptSucceed(x)
    \/ \E x \in QKeys : AttemptFail(x)
    \/ PlatformToggle
    \/ DeliverEvent
    \/ StorageToggle

SpecApp == Init /\ [][NextApp]_vars

\* a client of CacheService, and the clock
NextStore ==
    \/ \E n \in StoreNames, lc \in StoreLocs, lf \in StoreLocs : StoreSet(n, lc, lf)
    \/ StorageToggle
    \/ \E n \in StoreNames : StoreGet(n)
    \/ \E n \in StoreNames : StoreRemove(n)
    \/ StoreClearAll
    \/ \E d \in TickSteps : Tick(d)

SpecStore == Init /\ [][NextStore]_vars

\* a first use: no favorites yet
InitFav ==
    /\ now = 0
    /\ ticks = 0
    /\ navOnline = TRUE
    /\ mgrOnline = TRUE
    /\ ev = "none"
    /\ store = [k \in StoreKeys |-> NoSnap]
    /\ full = FALSE
    /\ favorites = <<>>
    /\ q = [x \in QKeys |-> NoQuery]
    /\ hook = HookOff("city")
    /\ app = NoApp
    /\ lastOp = NoOp

\* the favorites list, the snapshots and their cleanup
NextFav ==
    \/ \E n \in FavNames : FavAdd(n)
    \/ \E n \in FavNames : FavRemove(n)
    \/ \E l \in KeyLocs : FavToggle(l)
    \/ FavCleanup
    \/ \E l \in FavLocs : StoreSet(l.n, l, l)
    \/ StoreClearAll
    \/ StorageToggle

SpecFav == InitFav /\ [][NextFav]_vars

\* snapshots written and read as the clock advances
NextAge ==
    \/ \E l \in KeyLocs : StoreSet(l.n, l, l)
    \/ \E n \in StoreNames : StoreAge(n)
    \/ \E d \in ElapseSteps : Elapse(d)

SpecAge == Init /\ [][NextAge]_vars

\* one lookup, refetched as time passes, over a localStorage that runs out of
\* quota
NextQuota ==
    \/ \E l \in AppLocs : HookMount(l)
    \/ HookRunEffects
    \/ HookRefetch
    \/ \E x \in QKeys : AttemptSucceed(x)
    \/ \E x \in QKeys : AttemptFail(x)
    \/ StorageToggle
    \/ \E d \in TickSteps : Tick(d)

SpecQuota == Init /\ [][NextQuota]_vars

\* one lookup over a store that holds entries CacheService did not write
NextForeign ==
    \/ \E l \in AppLocs : HookMount(l)
    \/ HookUnmount
    \/ HookRunEffects
    \/ HookRefetch
    \/ \E x \in QKeys : AttemptSucceed(x)
    \/ \E x \in QKeys : AttemptFail(x)
    \/ PlatformToggle
    \/ DeliverEvent
    \/ \E l \in AppLocs, v \in {EmptyObject, Unparseable} : StoreCorrupt(l.n, v)

SpecForeign == Init /\ [][NextForeign]_vars

\* one lookup, and the invalidation calls on the query cache as time passes
NextInvalidate ==
    \/ \E l \in AppLocs : HookMount(l)
    \/ HookUnmount
    \/ HookRunEffects
    \/ \E x \in QKeys : AttemptSucceed(x)
    \/ \E x \in QKeys : AttemptFail(x)
    \/ \E d \in RefreshSteps : Tick(d)
    \/ RefreshWeather
    \/ \E p \in Patterns : InvalidateByPattern(p)
    \/ InvalidateStaleData
    \/ ClearWeatherCache

SpecInvalidate == Init /\ [][NextInvalidate]_vars

\* one lookup whose queries are swept as time passes
NextSweep ==
    \/ \E l \in AppLocs : HookMount(l)
    \/ HookUnmount
    \/ HookRunEffects
    \/ \E x \in QKeys : AttemptSucceed(x)
    \/ \E x \in QKeys : AttemptFail(x)
    \/ \E d \in SweepSteps : Tick(d)
    \/ InvalidateStaleData

SpecSweep == Init /\ [][NextSweep]_vars

\* App from its first render on: geolocation, the fallback, searches, the
\* lookups they start, and connectivity
NextGeo ==
    \/ AppMount
    \/ \E l \in AppLocs : AppUserSearch(l)
    \/ AppUseCurrentLocation
    \/ GeoSucceed
    \/ GeoFail
    \/ \E x \in QKeys : AttemptSucceed(x)
    \/ \E x \in QKeys : AttemptFail(x)
    \/ PlatformToggle
    \/ DeliverEvent

SpecGeo == Init /\ [][NextGeo]_vars

\* the lookup as WeatherModal makes it (it never calls refetch), with an answer
\* to every attempt, the flush of every render's effects and the dispatch of
\* every window event guaranteed
NextLive ==
    \/ \E l \in AppLocs : HookMount(l)
    \/ HookUnmount
    \/ HookRunEffects
    \/ \E x \in QKeys : AttemptSucceed(x)
    \/ \E x \in QKeys : AttemptFail(x)
    \/ PlatformToggle
    \/ DeliverEvent
    \/ \E d \in TickSteps : Tick(d)

SpecLive ==
    /\ Init /\ [][NextLive]_vars
    /\ WF_vars(HookRunEffects)
    /\ WF_vars(DeliverEvent)
    /\ \A x \in QKeys : WF_vars(AttemptSucceed(x) \/ AttemptFail(x))

\* the keys of the two hooks
CrossLocs == KeyLocs \cup {Here}

\* the two hooks in turn, key changes, the answers to the queries in any order
\* and the platform
NextCross ==
    \/ \E l \in CrossLocs : HookMount(l)
    \/ \E l \in CrossLocs \cup {NoLoc} : HookSetCity(l)
    \/ HookUnmount
    \/ HookOther
    \/ HookRunEffects
    \/ \E x \in QKeys : AttemptSucceed(x)
    \/ PlatformToggle
    \/ DeliverEvent

SpecCross == Init /\ [][NextCross]_vars

\* the search bar of App, and App's lookup of the city searched
NextSearch ==
    \/ \E v \in BarTexts : BarType(v)
    \/ BarSubmit
    \/ BarSelect
    \/ BarTimer
    \/ \E s \in BarTexts, found \in BOOLEAN : SearchSucceed(s, found)
    \/ \E s \in BarTexts : SearchFail(s)
    \/ BarClickOutside
    \/ BarFocus
    \/ \E x \in QKeys : AttemptSucceed(x)
    \/ \E x \in QKeys : AttemptFail(x)

SpecSearch == Init /\ [][NextSearch]_vars

----------------------------------------------------------------------------
(* Properties *)

\* the hook is mounted with a key and the effects of its latest render have run
Settled == hook.mounted /\ hook.city # NoLoc /\ ~EffectsPending

\* the snapshot the store holds for the hook's key
Snap == getCachedWeatherData(store, hook.city.n)

\* the two queries of the hook's key
HookQueries == {<<k, hook.city>> : k \in Kinds}

\* online, the last fetch of the hook's key has failed after its retries
FetchFailedOnline ==
    /\ Settled /\ ~hook.isOffline /\ navOnline
    /\ \A x \in HookQueries : q[x].fs = "idle"
    /\ \E x \in HookQueries : q[x].err

\* the data fields of the result are what the two queries hold
PassThrough ==
    /\ HookReturn.currentWeather = q[<<"current", hook.city>>].data
    /\ HookReturn.forecast = q[<<"forecast", hook.city>>].data

(* C1 as stated: online, the fetch failed after its retries and the store holds
   a snapshot for the key: the result is the snapshot, isCachedData is true and
   there is no error. *)
C1_FallbackOnFailure ==
    (FetchFailedOnline /\ Snap # NoSnap) =>
        /\ HookReturn.isCachedData
        /\ HookReturn.error = "none"
        /\ HookReturn.currentWeather = Snap.currentWeather
        /\ HookReturn.forecast = Snap.forecast

(* C1 amended: online, the fetch failed after its retries and the store holds a
   snapshot for the key: the snapshot is not consulted; the result has
   isCachedData false, no cacheAge, the error set, and as data what the two
   queries hold in memory. *)
C1_NoFallbackOnFailure ==
    (FetchFailedOnline /\ Snap # NoSnap) =>
        /\ ~HookReturn.isCachedData
        /\ ~HookReturn.isOffline
        /\ HookReturn.cacheAge = -1
        /\ HookReturn.error = "fetch"
        /\ PassThrough

\* C1's case at its sharpest: a snapshot is stored, and the result has no data
C1_Witness ==
    /\ FetchFailedOnline /\ Snap # NoSnap
    /\ HookReturn.currentWeather = NoData /\ HookReturn.forecast = NoData
    /\ HookReturn.error = "fetch"

\* a fetch of the query starts in this step
FetchStarts(x) == q[x].fs = "idle" /\ q'[x].fs # "idle"

\* an attempt of the query goes out to the remote API in this step
CallIssued(x) ==
    /\ q'[x].fs = "inflight"
    /\ q[x].fs # "inflight" \/ q'[x].fails # q[x].fails

(* C2 as stated: while the tracker of the hook reports offline, no lookup (the
   hook's, App's, a prefetch) sends an attempt to the remote API. *)
C2_NoCallWhileOffline ==
    [][(hook.mounted /\ hook.isOffline) => \A x \in QKeys : ~CallIssued(x)]_vars

(* C2 amended: while the tracker of the hook reports offline, the hook itself
   starts no fetch, on its initial load, on a key change or on refetch: a fetch
   that starts in a step other than App's search and the dispatch of a window
   event is a prefetch (a fetch without retries). *)
C2_OfflineHookStartsNoFetch ==
    [][(hook.mounted /\ hook.isOffline /\ app' = app /\ ev' = ev) =>
            \A x \in QKeys : FetchStarts(x) => q'[x].retry = 0]_vars

\* the tracker reports offline while the query client is online, the effects of
\* the hook have run, and the queries of its key have not been fetched
C2_Witness ==
    /\ Settled /\ hook.isOffline /\ mgrOnline
    /\ \A x \in HookQueries : q[x] = NoQuery
    /\ HookReturn.error = "No cached data available"

(* C3 as stated: a fetch for the key failed and the store holds no snapshot for
   it: the result has the error set and both data fields absent. *)
C3_NoCacheFailure ==
    (FetchFailedOnline /\ Snap = NoSnap) =>
        /\ HookReturn.error # "none"
        /\ HookReturn.currentWeather = NoData
        /\ HookReturn.forecast = NoData

(* C3 amended: a fetch for the key failed and the store holds no snapshot for
   it: the result has the error set, isCachedData false, and each data field
   holds what its own query holds, so the payload of the sibling request that
   succeeded is in the result next to the error. *)
C3_ErrorWithSiblingPayload ==
    (FetchFailedOnline /\ Snap = NoSnap) =>
        /\ HookReturn.error = "fetch"
        /\ ~HookReturn.isCachedData
        /\ PassThrough

\* one request failed, its sibling succeeded, nothing is stored
C3_Witness ==
    /\ FetchFailedOnline /\ Snap = NoSnap
    /\ HookReturn.error = "fetch"
    /\ HookReturn.currentWeather # NoData /\ HookReturn.forecast = NoData

(* C4: the tracked status is offline, the hook has settled and the store holds
   a snapshot for its key: the result has isOffline and isCachedData true, no
   error, the snapshot's two payloads, and as cacheAge the whole minutes since
   the snapshot's timestamp, also beyond the 30-minute expiry. *)
C4_OfflineServesSnapshot ==
    (Settled /\ hook.isOffline /\ Snap # NoSnap) =>
        /\ HookReturn.isOffline
        /\ HookReturn.isCachedData
        /\ HookReturn.error = "none"
        /\ ~HookReturn.isLoading
        /\ HookReturn.currentWeather = Snap.currentWeather
        /\ HookReturn.forecast = Snap.forecast
        /\ HookReturn.cacheAge * MsPerMinute <= now - Snap.timestamp
        /\ now - Snap.timestamp < (HookReturn.cacheAge + 1) * MsPerMinute

\* a snapshot served 35 min 30 s after it was written, past the expiry: age 35
C4_Witness ==
    /\ Settled /\ hook.isOffline /\ Snap # NoSnap
    /\ now - Snap.timestamp = 2130000
    /\ ~isCacheDataFresh(Snap, now)
    /\ HookReturn.isCachedData
    /\ HookReturn.cacheAge = 35

(* C5: the tracked status is offline, the hook has settled and the store holds
   no snapshot for its key: the result has isOffline true, isCachedData and
   isLoading false, the error "No cached data available", no cacheAge and no
   data. *)
C5_OfflineNoSnapshot ==
    (Settled /\ hook.isOffline /\ Snap = NoSnap) =>
        /\ HookReturn.isOffline
        /\ ~HookReturn.isCachedData
        /\ ~HookReturn.isLoading
        /\ HookReturn.error = "No cached data available"
        /\ HookReturn.cacheAge = -1
        /\ HookReturn.currentWeather = NoData
        /\ HookReturn.forecast = NoData

\* offline with nothing stored, while one query holds a payload in memory
C5_Witness ==
    /\ Settled /\ hook.isOffline /\ Snap = NoSnap
    /\ q[<<"current", hook.city>>].data # NoData
    /\ HookReturn.error = "No cached data available"

(* C6 as stated: online, both requests of a key have succeeded, whoever asked
   (a lookup hook, App, a prefetch): the store holds a snapshot for the key
   with exactly those two payloads. *)
C6_WriteThroughOnSuccess ==
    \A l \in Locs :
        (/\ navOnline /\ mgrOnline /\ ~EffectsPending
         /\ \A k \in Kinds : /\ q[<<k, l>>].fs = "idle"
                             /\ q[<<k, l>>].data # NoData
                             /\ ~q[<<k, l>>].err)
        => /\ getCachedWeatherData(store, l.n).currentWeather = q[<<"current", l>>].data
           /\ getCachedWeatherData(store, l.n).forecast = q[<<"forecast", l>>].data

(* C6 amended: the write-through is the offline lookup hook's alone.  When the
   effects of a mounted hook run while its tracker reports online, both queries
   of its key hold a payload, the pair is new to the effect and localStorage
   has room, the store afterwards holds for the key a snapshot of exactly those
   two payloads, stamped with the time of the write; and the store changes in
   no other step: a lookup through App's hook or a prefetch writes nothing. *)
C6_WriteThroughByOfflineHook ==
    [][ LET both == /\ hook.mounted /\ hook.city # NoLoc /\ ~hook.isOffline
                    /\ HookData("current") # NoData /\ HookData("forecast") # NoData
            written == /\ getCachedWeatherData(store', hook.city.n).currentWeather
                                = HookData("current")
                       /\ getCachedWeatherData(store', hook.city.n).forecast
                                = HookData("forecast")
                       /\ getCachedWeatherData(store', hook.city.n).timestamp = now
        IN /\ (EffectsPending /\ hook' # hook /\ hook.ranWrite # WriteDeps /\ both /\ ~full)
                => written
           /\ store' # store
                => /\ EffectsPending /\ hook' # hook /\ both /\ ~full /\ written
                   /\ \A k \in StoreKeys : k # toLowerCase(hook.city.n) => store'[k] = store[k]
      ]_vars

\* the hook has written the pair its two queries hold
C6_Witness ==
    /\ Settled /\ ~hook.isOffline /\ navOnline
    /\ HookData("current") # NoData /\ HookData("forecast") # NoData
    /\ Snap.currentWeather = HookData("current")
    /\ Snap.forecast = HookData("forecast")

(* C7: every snapshot in the store holds a current-conditions payload and a
   forecast payload, under city keys and under coordinate keys. *)
C7_AtomicPair ==
    \A k \in StoreKeys :
        store[k] # NoSnap =>
            /\ store[k].currentWeather.k = "current"
            /\ store[k].forecast.k = "forecast"

\* a snapshot is stored under the coordinate key
C7_Witness ==
    /\ hook.kind = "coords"
    /\ store["coords_1_2"] # NoSnap
    /\ store["coords_1_2"].currentWeather # NoData
    /\ store["coords_1_2"].forecast # NoData

(* C8: after a write that succeeded for a name, a read under every name that
   is equal to it after case folding returns the written payloads (the whole
   record is the new one), and a step leaves the read of every name untouched
   whose folded key the step's call is not about. *)
C8_RoundTrip ==
    [][ LET touched == IF lastOp' = lastOp THEN {}
                       ELSE IF lastOp'.op \in {"set", "remove"} THEN {toLowerCase(lastOp'.name)}
                       ELSE IF lastOp'.op = "clear" THEN StoreKeys
                       ELSE {}
        IN /\ (lastOp' # lastOp /\ lastOp'.op = "set" /\ lastOp'.ok) =>
                \A n \in StoreNames :
                    toLowerCase(n) = toLowerCase(lastOp'.name) =>
                        /\ getCachedWeatherData(store', n).currentWeather = lastOp'.c
                        /\ getCachedWeatherData(store', n).forecast = lastOp'.f
                        /\ getCachedWeatherData(store', n).timestamp = lastOp'.at
           /\ \A n \in StoreNames :
                toLowerCase(n) \notin touched =>
                    getCachedWeatherData(store', n) = getCachedWeatherData(store, n)
      ]_vars

\* "Paris" was written, later "Oslo": the read of "paris" still returns the
\* earlier record, the read of "Oslo" the one just written
C8_Witness ==
    /\ lastOp.op = "set" /\ lastOp.ok /\ lastOp.name = "Oslo"
    /\ getCachedWeatherData(store, "Oslo").currentWeather = lastOp.c
    /\ getCachedWeatherData(store, "paris") # NoSnap
    /\ getCachedWeatherData(store, "paris").cityName = "paris"
    /\ getCachedWeatherData(store, "paris").timestamp < lastOp.at

\* online, a request of the hook's key is pending (in flight, between retries,
\* or held back)
SiblingPending ==
    /\ Settled /\ ~hook.isOffline /\ navOnline
    /\ \E x \in HookQueries : q[x].fs # "idle"

(* C9 as stated: while one of the two requests of an online lookup is pending
   or retrying, the result has no data. *)
C9_NoDataUntilBothSettle ==
    SiblingPending =>
        /\ HookReturn.currentWeather = NoData
        /\ HookReturn.forecast = NoData

(* C9 amended: while one of the two requests of an online lookup is pending or
   retrying, each data field of the result holds what its own query holds: the
   payload of a request is in the result as soon as that request has succeeded,
   whatever its sibling does, and isLoading is true exactly while a request
   that has no payload yet is in flight. *)
C9_EachFieldAsItSettles ==
    SiblingPending =>
        /\ PassThrough
        /\ HookReturn.isLoading <=> \E x \in HookQueries : QLoading(q[x])
        /\ ~HookReturn.isCachedData

\* current conditions have arrived and are in the result while the forecast
\* request is still out
C9_Witness ==
    /\ SiblingPending
    /\ q[<<"forecast", hook.city>>].fs = "inflight"
    /\ q[<<"forecast", hook.city>>].data = NoData
    /\ HookReturn.currentWeather # NoData
    /\ HookReturn.isLoading

\* the payload is absent or was fetched for the location
IsFor(d, l) == d = NoData \/ d.for = l

(* C10: the online result of the hook for its present key, and the result of
   App's lookup for the selected city, hold no payload fetched for another
   key, in whatever order the responses arrive; and once the two requests of
   the present key have succeeded the result holds their payloads. *)
C10_SupersededRequests ==
    /\ (hook.mounted /\ hook.city # NoLoc /\ ~HookReturn.isOffline) =>
            /\ IsFor(HookReturn.currentWeather, hook.city)
            /\ IsFor(HookReturn.forecast, hook.city)
    /\ app.city # NoLoc =>
            /\ IsFor(AppReturn.currentWeather, app.city)
            /\ IsFor(AppReturn.forecast, app.city)
    /\ (Settled /\ ~HookReturn.isOffline
        /\ \A x \in HookQueries : q[x].fs = "idle" /\ ~q[x].err) =>
            /\ HookReturn.currentWeather # NoData
            /\ HookReturn.forecast # NoData
            /\ HookReturn.currentWeather.for = hook.city
            /\ HookReturn.forecast.for = hook.city

\* the key changed from Paris to Oslo with the Paris forecast still in flight:
\* both Oslo responses and the Paris current conditions have arrived
C10_Witness ==
    /\ Settled /\ hook.city = Oslo /\ ~HookReturn.isOffline
    /\ q[<<"current", Paris>>].data # NoData
    /\ q[<<"forecast", Paris>>].fs = "inflight"
    /\ HookReturn.currentWeather = q[<<"current", Oslo>>].data
    /\ HookReturn.currentWeather # NoData
    /\ HookReturn.forecast # NoData

(* C11 as stated: a request is attempted at most 3 times in total. *)
C11_AtMostThreeAttempts ==
    \A x \in QKeys : q[x].fs = "inflight" => q[x].fails + 1 <= 3

(* C11 amended: a request is attempted at most 4 times in total, the first
   attempt and 3 retries; the delay before the first retry is 1000 ms, the
   delay before each further retry is twice the one before, none exceeds
   30000 ms; a fetch settles as failed only when the attempt that failed was
   its last allowed one, and the request is then attempted again only by a new
   fetch, whose count starts at zero. *)
C11_RetryBoundAndBackoff ==
    [][ \A x \in QKeys :
          /\ q'[x].fs = "inflight" => q'[x].fails + 1 <= 4
          /\ (q[x].fs = "inflight" /\ q'[x].fails = q[x].fails + 1) =>
                /\ q'[x].wait = (IF q[x].fails = 0 THEN 1000 ELSE 2 * q[x].wait)
                /\ q'[x].wait <= 30000
                /\ q'[x].fs # "idle"
          /\ (q[x].fs = "inflight" /\ q'[x].fs = "idle" /\ q'[x].err) =>
                /\ q[x].fails = q[x].retry
                /\ q'[x].data = q[x].data
          /\ (q[x].fs = "idle" /\ q'[x].fs # "idle") =>
                q'[x].fails = 0 /\ q'[x].wait = 0
      ]_vars

\* the fourth attempt of a request is out, 4000 ms after the third failed
C11_Witness ==
    \E x \in QKeys :
        /\ q[x].fs = "inflight"
        /\ q[x].fails = 3
        /\ q[x].wait = 4000

\* the entries of a list
Entries(fv) == {fv[i] : i \in 1..Len(fv)}

\* two names are equal ignoring case
SameFolded(a, b) == toLowerCase(a) = toLowerCase(b)

\* the step is a call of StorageService or CacheService of the given kind
Called(op) == lastOp' # lastOp /\ lastOp'.op = op

(* C12: the cleanup removes exactly the snapshots whose key is not
   coordinate-prefixed and equals no favorite ignoring case; every other
   snapshot is kept as it was, and the favorites list is unchanged. *)
C12_FavoritePruning ==
    [][ Called("cleanup") =>
          /\ favorites' = favorites
          /\ \A k \in StoreKeys :
                IF k \in {"coords_1_2"} \/ \E f \in Entries(favorites) : SameFolded(f, k)
                THEN store'[k] = store[k]
                ELSE store'[k] = NoSnap
      ]_vars

\* favorites ["Paris"], snapshots under "paris", "oslo" and the coordinate key:
\* the cleanup has removed "oslo" only
C12_Witness ==
    /\ lastOp.op = "cleanup"
    /\ favorites = <<"Paris">>
    /\ lastOp.list = <<"coords_1_2", "oslo", "paris">>
    /\ store["oslo"] = NoSnap
    /\ store["paris"] # NoSnap
    /\ store["coords_1_2"] # NoSnap

(* C13: removing a favorite, by remove or by toggling it off, leaves every
   snapshot as it was, so a read returns what it returned before; a snapshot
   goes away only in a cleanup or a clearing of the cache. *)
C13_UnfavoritingKeepsSnapshots ==
    [][ /\ (Called("remove-favorite") \/ Called("toggle")) =>
              /\ store' = store
              /\ \A n \in Names :
                    getCachedWeatherData(store', n) = getCachedWeatherData(store, n)
        /\ (\E k \in StoreKeys : store[k] # NoSnap /\ store'[k] = NoSnap) =>
              Called("cleanup") \/ Called("clear")
      ]_vars

\* "Paris" has been toggled off and its snapshot is still read
C13_Witness ==
    /\ lastOp.op = "toggle" /\ lastOp.ok /\ lastOp.name = "Paris"
    /\ ~isFavorite(favorites, "Paris")
    /\ getCachedWeatherData(store, "Paris") # NoSnap
    /\ getCachedWeatherData(store, "Paris").currentWeather.for = Paris

(* C14: add(city) leaves the persisted list as it is when an entry equals city
   ignoring case; otherwise it appends city as the last element, the entries
   before it unchanged, when the list can be stored, and leaves the persisted
   list as it is when storing fails; the returned list is the persisted list
   after the call, and after a call that stored, city is a favorite, so a
   second add changes nothing. *)
C14_FavoritesAdd ==
    [][ Called("add") =>
          LET city == lastOp'.name
          IN /\ (\E f \in Entries(favorites) : SameFolded(f, city)) => favorites' = favorites
             /\ (~\E f \in Entries(favorites) : SameFolded(f, city)) =>
                    IF lastOp'.ok
                    THEN /\ Len(favorites') = Len(favorites) + 1
                         /\ favorites'[Len(favorites')] = city
                         /\ SubSeq(favorites', 1, Len(favorites)) = favorites
                    ELSE favorites' = favorites
             /\ lastOp'.list = favorites'
             /\ lastOp'.ok => \E f \in Entries(favorites') : SameFolded(f, city)
      ]_vars

\* "paris" was added to ["Paris", "Oslo"]: nothing changed, and the list was
\* returned
C14_Witness ==
    /\ lastOp.op = "add" /\ lastOp.ok /\ lastOp.name = "paris"
    /\ favorites = <<"Paris", "Oslo">>
    /\ lastOp.list = <<"Paris", "Oslo">>

\* the place of an entry in a list without repetitions
Pos(fv, a) == CHOOSE i \in 1..Len(fv) : fv[i] = a

(* C15: remove(city), when the list can be stored, deletes every entry equal
   to city ignoring case and keeps the other entries, in their order; then no
   name equal to city ignoring case is a favorite; when storing fails the
   persisted list stays; the returned list is the persisted list after the
   call. *)
C15_FavoritesRemove ==
    [][ Called("remove-favorite") =>
          LET city == lastOp'.name
          IN /\ lastOp'.ok =>
                   /\ Entries(favorites') =
                         {f \in Entries(favorites) : ~SameFolded(f, city)}
                   /\ Len(favorites') = Cardinality(Entries(favorites'))
                   /\ \A a, b \in Entries(favorites') :
                         Pos(favorites', a) < Pos(favorites', b)
                            <=> Pos(favorites, a) < Pos(favorites, b)
                   /\ \A c \in FavNames : SameFolded(c, city) => ~isFavorite(favorites', c)
             /\ ~lastOp'.ok => favorites' = favorites
             /\ lastOp'.list = favorites'
      ]_vars

\* remove("paris") on a list of three has taken "Paris" out and left the
\* other two in their order
C15_Witness ==
    /\ lastOp.op = "remove-favorite" /\ lastOp.ok /\ lastOp.name = "paris"
    /\ lastOp.n = 3
    /\ favorites = <<"Rome", "Oslo">>
    /\ lastOp.list = favorites
    /\ ~isFavorite(favorites, "Paris")

(* C16: starting from no favorites, after any sequence of add, remove and
   toggle the persisted list holds no two entries that are equal ignoring
   case. *)
C16_FavoritesUnique ==
    \A i, j \in 1..Len(favorites) :
        i # j => toLowerCase(favorites[i]) # toLowerCase(favorites[j])

\* three favorites, and an add of "paris" next to "Paris" has just returned
C16_Witness ==
    /\ lastOp.op = "add" /\ lastOp.ok /\ lastOp.name = "paris"
    /\ Len(favorites) = 3
    /\ "Paris" \in Entries(favorites)
    /\ lastOp.n = 3

\* the snapshots in the store
Stored(st) == {k \in StoreKeys : st[k] # NoSnap}

(* C17: the age of a snapshot is the number of whole minutes between its
   timestamp and now; it is 0 right after the write, never negative, and it
   does not decrease as the clock advances while the snapshot stays. *)
C17_SnapshotAge ==
    [][ /\ \A k \in Stored(store') :
              LET age == getCacheAge(store'[k], now')
              IN /\ age >= 0
                 /\ age * 60000 <= now' - store'[k].timestamp
                 /\ now' - store'[k].timestamp < (age + 1) * 60000
        /\ (Called("set") /\ lastOp'.ok) =>
              getCacheAge(getCachedWeatherData(store', lastOp'.name), now') = 0
        /\ \A k \in Stored(store) :
              store'[k] = store[k] =>
                  getCacheAge(store'[k], now') >= getCacheAge(store[k], now)
        /\ Called("age") =>
              lastOp'.n = getCacheAge(getCachedWeatherData(store, lastOp'.name), now)
      ]_vars

\* a snapshot is 29 min 59 s old and its age was read as 29
C17_Witness ==
    /\ lastOp.op = "age" /\ lastOp.at = now
    /\ now - lastOp.ret.timestamp = 1799000
    /\ lastOp.n = 29
    /\ getCachedWeatherData(store, lastOp.name) = lastOp.ret

(* C18: a snapshot is fresh exactly while now - timestamp is below 30 minutes
   (1,800,000 ms): fresh at 29 min 59 s, not fresh at 30 min 00 s. *)
C18_ExpiryBoundary ==
    /\ \A k \in Stored(store) :
          LET elapsed == now - store[k].timestamp
          IN /\ isCacheDataFresh(store[k], now) <=> elapsed <= 1799999
             /\ elapsed = 1799000 => isCacheDataFresh(store[k], now)
             /\ elapsed = 1800000 => ~isCacheDataFresh(store[k], now)
    /\ (lastOp.op = "age" /\ lastOp.at = now) =>
          (lastOp.ok <=> now - lastOp.ret.timestamp < 1800000)

\* at the same moment one snapshot is 30 min 00 s old and not fresh, another
\* 29 min 59 s old and fresh
C18_Witness ==
    /\ Stored(store) = {"paris", "oslo"}
    /\ now - store["paris"].timestamp = 1800000
    /\ ~isCacheDataFresh(store["paris"], now)
    /\ now - store["oslo"].timestamp = 1799000
    /\ isCacheDataFresh(store["oslo"], now)
    /\ lastOp.op = "age" /\ lastOp.at = now /\ lastOp.name = "Paris" /\ ~lastOp.ok

\* the write-through effect is about to run with both payloads, tracker online
WriteDue ==
    /\ EffectsPending /\ hook.ranWrite # WriteDeps
    /\ hook.city # NoLoc /\ ~hook.isOffline
    /\ HookData("current") # NoData /\ HookData("forecast") # NoData

(* C19: when localStorage fails during the write-through, the effects of the
   hook complete all the same, the hook stays mounted, the result of the lookup
   carries the two payloads just fetched with no error, and every snapshot of
   the store is the one held before. *)
C19_BestEffortPersistence ==
    [][ (WriteDue /\ full /\ hook' # hook) =>
          /\ store' = store
          /\ hook'.mounted /\ hook'.ranWrite = WriteDeps
          /\ q' = q \/ \A x \in HookQueries : q'[x].data = q[x].data
          /\ (navOnline /\ ~HookError) =>
                /\ HookReturn'.currentWeather = HookData("current")
                /\ HookReturn'.forecast = HookData("forecast")
                /\ HookReturn'.error = "none"
                /\ ~HookReturn'.isCachedData
      ]_vars

\* a refetch 35 min 30 s after the snapshot was written brought new payloads,
\* the write of them failed: the result has the new payloads and no error, the
\* store the old snapshot
C19_Witness ==
    /\ Settled /\ full /\ ~hook.isOffline /\ navOnline
    /\ HookReturn.currentWeather.at = 2130000
    /\ HookReturn.forecast.at = 2130000
    /\ HookReturn.error = "none"
    /\ Snap # NoSnap /\ Snap.timestamp = 0
    /\ Snap.currentWeather.at = 0 /\ Snap.forecast.at = 0

\* a snapshot with both payloads and a timestamp
Complete(cd) ==
    /\ cd.currentWeather # NoData
    /\ cd.forecast # NoData
    /\ cd.timestamp # Undefined

(* C20: a read returns nothing or a complete snapshot, nothing when the stored
   text is malformed; so the offline result over a malformed entry has
   isCachedData false and the error "No cached data available", and no result
   has isCachedData true with a payload absent. *)
C20_DefensiveRead ==
    /\ \A n \in Names :
          getCachedWeatherData(store, n) = NoSnap \/ Complete(getCachedWeatherData(store, n))
    /\ (Settled /\ hook.isOffline /\ store[toLowerCase(hook.city.n)] \in {EmptyObject, Unparseable}
        /\ hook.cachedData = Snap) =>
          /\ ~HookReturn.isCachedData
          /\ HookReturn.error = "No cached data available"
    /\ (hook.mounted /\ HookReturn.isCachedData) =>
          /\ HookReturn.currentWeather # NoData
          /\ HookReturn.forecast # NoData

(* C21: the tracked boolean of a mounted hook starts as the platform's status
   and, once the platform has dispatched the event of its latest transition,
   equals the platform's present status, whenever the transitions happen. *)
C21_TrackerConsistency ==
    (hook.mounted /\ ev = "none") => (hook.isOffline <=> ~navOnline)

\* the step is one of the invalidation calls on the query cache
Invalidation ==
    Called("refresh") \/ Called("pattern") \/ Called("sweep") \/ Called("clear-queries")

\* the queries in the cache that the step's call names
Named(x) ==
    /\ InCache(q[x])
    /\ \/ Called("refresh")
       \/ Called("pattern") /\ lastOp'.name = "aris" /\ x[2].n \in {"Paris", "paris"}
       \/ Called("pattern") /\ lastOp'.name = "current" /\ x[1] = "current"
       \/ Called("sweep") /\ q'[x].inv /\ ~q[x].inv

(* C22: an invalidation of the query cache (all weather queries, by pattern,
   the stale ones) and its clearing leave every snapshot and the favorites as
   they were.  Every query the call names is marked invalidated, and is fetched
   at once when an enabled observer reads it; a lookup that begins to read an
   invalidated query fetches it, however recent its data; after the clearing no
   query holds data.  So a query rests invalidated, or without data, under an
   enabled lookup only when its fetch has failed. *)
C22_InvalidationFrame ==
    [][ /\ Invalidation =>
              /\ store' = store /\ favorites' = favorites
              /\ \A n \in Names :
                    getCachedWeatherData(store', n) = getCachedWeatherData(store, n)
        /\ \A x \in QKeys :
              Named(x) =>
                  /\ q'[x].inv
                  /\ EnabledObserved(x) => q'[x].fs # "idle"
        /\ Called("clear-queries") => \A x \in QKeys : q'[x].data = NoData
        /\ (EffectsPending /\ hook' # hook /\ hook'.ranObs = <<hook.city, TRUE>>
            /\ hook.ranObs # hook'.ranObs) =>
              \A x \in HookQueries :
                  (q[x].inv /\ q[x].fs = "idle") => q'[x].fs # "idle"
        /\ (Settled /\ HookEnabled) =>
              \A x \in HookQueries :
                  ((q[x].inv \/ q[x].data = NoData) /\ q[x].fs = "idle") => q[x].err
      ]_vars

\* a refresh while the lookup held both payloads, just fetched and written to
\* the store: both queries are invalidated and in flight again, their data still
\* held, the snapshot and the favorite as before
C22_Witness ==
    /\ lastOp.op = "refresh"
    /\ Settled /\ HookEnabled /\ now = 0
    /\ \A x \in HookQueries : q[x].inv /\ q[x].fs = "inflight" /\ q[x].data # NoData
    /\ Snap # NoSnap /\ Snap.currentWeather = HookData("current")
    /\ favorites = <<"Paris">>

(* C23: the sweep invalidates a current-conditions query exactly when its data
   is more than 5 minutes old, a forecast query exactly when its data is more
   than 10 minutes old; a forecast between 5 and 10 minutes old is left
   alone. *)
C23_StaleSweepThresholds ==
    [][ Called("sweep") =>
          \A x \in QKeys :
              q[x].data # NoData =>
                  (q'[x].inv <=>
                      \/ q[x].inv
                      \/ now - q[x].data.at > (IF x[1] = "current" THEN 300000 ELSE 600000))
      ]_vars

(* C24: when the first geolocation attempt of the session fails, App makes the
   fallback lookup of London exactly once; a later geolocation failure brings
   no fallback lookup, so there is never more than one. *)
C24_GeolocationFallback ==
    /\ app.fallbacks <= 1
    /\ app.firstFailed => app.fallbacks = 1
    /\ ~app.firstFailed => app.fallbacks = 0

\* the request of the hook has settled: the effects have run, isLoading is false
\* and the result holds data or an error
ResultSettled ==
    /\ Settled
    /\ ~HookReturn.isLoading
    /\ \/ HookReturn.currentWeather # NoData
       \/ HookReturn.forecast # NoData
       \/ HookReturn.error # "none"

\* settled, and no fetch of the key is under way behind an online result
AtRest ==
    /\ ResultSettled
    /\ HookReturn.isOffline \/ \A x \in HookQueries : q[x].fs = "idle"

\* a step that is no new request, no refetch and no connectivity transition
QuietStep ==
    /\ hook' = hook
    /\ navOnline' = navOnline /\ ev' = ev /\ mgrOnline' = mgrOnline
    /\ \A x \in HookQueries : q[x].fs = "idle" => q'[x].fs = "idle"

\* the request settles; offline it settles as its effects run, with no attempt
SettlesEventually ==
    /\ (hook.mounted /\ hook.city # NoLoc) ~> (ResultSettled \/ ~hook.mounted)
    /\ [][ (EffectsPending /\ hook.isOffline /\ hook.city # NoLoc /\ hook'.ranLoad # hook.ranLoad)
              => (ResultSettled' /\ \A x \in QKeys : ~CallIssued(x)) ]_vars

(* C25 as stated: every request settles, offline without a network wait, and
   the settled result stays as it is until a new request, a refetch or a
   connectivity transition. *)
C25_EveryRequestSettles ==
    /\ SettlesEventually
    /\ [][ (AtRest /\ QuietStep) => HookReturn' = HookReturn ]_vars

(* C25 amended: every request settles, offline without a network wait, and
   the settled result stays as it is until a new request, a refetch or a
   connectivity transition, except for cacheAge, which follows the clock. *)
C25_SettlesAndStaysButAge ==
    /\ SettlesEventually
    /\ [][ (AtRest /\ QuietStep) =>
              [HookReturn' EXCEPT !.cacheAge = 0] = [HookReturn EXCEPT !.cacheAge = 0] ]_vars

\* a request that went through four failed attempts of one query and settled
\* with the error, connectivity online
C25_Witness ==
    /\ AtRest /\ ~HookReturn.isOffline
    /\ HookReturn.error = "fetch"
    /\ HookReturn.currentWeather = NoData
    /\ HookReturn.forecast # NoData

\* the offline result shows what a read of the store yields for the hook's key
MirrorsStore ==
    /\ HookReturn.currentWeather = Snap.currentWeather
    /\ HookReturn.forecast = Snap.forecast
    /\ HookReturn.isCachedData = (Snap # NoSnap)

(* C26: whenever the hook returns through its offline branch for a key, the
   data and isCachedData of the result are what a read of the store yields for
   that key at that moment. *)
C26_OfflineMirrorsStore ==
    (hook.mounted /\ hook.city # NoLoc /\ HookReturn.isOffline) => MirrorsStore

\* the moment the older of the two payloads of a snapshot was received
ReceivedAt(cd) == Min(cd.currentWeather.at, cd.forecast.at)

(* C27: the timestamp of a stored snapshot is never later than the moment its
   payloads were received from the network, so the age computed from it never
   understates the real age of the payloads. *)
C27_TimestampHonesty ==
    \A k \in Stored(store) :
        /\ store[k].timestamp <= ReceivedAt(store[k])
        /\ getCacheAge(store[k], now) >= (now - ReceivedAt(store[k])) \div MsPerMinute

\* the key CacheService stores a lookup of `l` under
StoreKey(l) == toLowerCase(l.n)

\* the payload is the answer of the given kind to a lookup stored under k, made
\* by a city lookup for a city key and by a coordinate lookup for a coords_ key
FetchedFor(d, kind, k) ==
    /\ d.k = kind
    /\ StoreKey(d.for) = k
    /\ (d.for.t = "coords") <=> startsWithCoords(k)

(* C28: every snapshot of the store holds, under its key, the current-conditions
   payload and the forecast payload that were fetched for that key; a step
   writes no key but the one of the hook's present lookup, so a city lookup
   leaves the coordinate snapshots alone and a coordinate lookup the city
   snapshots. *)
C28_NoCrossKeyContamination ==
    /\ [](\A k \in Stored(store) :
            /\ FetchedFor(store[k].currentWeather, "current", k)
            /\ FetchedFor(store[k].forecast, "forecast", k)
            /\ store[k].cityName = k)
    /\ [][ \A k \in StoreKeys :
              store'[k] # store[k] =>
                  /\ hook.city # NoLoc /\ k = StoreKey(hook.city)
                  /\ startsWithCoords(k) <=> (hook.kind = "coords") ]_vars

\* after key changes and a connectivity transition, the store holds a snapshot
\* for each of two cities and for the coordinates
C28_Witness ==
    /\ Stored(store) = {"paris", "oslo", "coords_1_2"}
    /\ ~navOnline

\* the hook is rendered with a key and its result says offline
ReportsOffline == hook.mounted /\ hook.city # NoLoc /\ HookReturn.isOffline

(* C29: whenever the result of the hook says isOffline, its two queries are
   disabled, and no step taken from such a state writes the store or starts a
   fetch of the hook's key. *)
C29_OfflineFlagAgreesWithEnablement ==
    /\ [](ReportsOffline => ~HookEnabled)
    /\ [][ ReportsOffline =>
              /\ store' = store
              /\ \A x \in HookQueries : ~FetchStarts(x) ]_vars

\* the step sets the list to the response of a search
ResponseInstalled ==
    /\ app'.bar.flight # app.bar.flight
    /\ app'.bar.searchResults # ""

(* C30: a response is put into the list only while the query has two characters
   or more and only when it answers that query, so the response to an earlier
   query never replaces the list of a later one; and while the query is empty
   or shorter than two characters the list is empty and closed, whatever
   response arrives late. *)
C30_ResultsFollowLatestQuery ==
    /\ [][ ResponseInstalled =>
              /\ length(app.bar.query) >= 2
              /\ app'.bar.searchResults = app.bar.query ]_vars
    /\ [](length(app.bar.query) < 2 =>
              /\ app.bar.searchResults = ""
              /\ ~app.bar.showResults)

====
